---------------------------- MODULE Spec2Model ----------------------------
(***************************************************************************)
(* Weight-closure sizing of KhiZeus/PlaneProject.                          *)
(*                                                                         *)
(* Real numbers are fixed-point integers with six decimals (a real v is    *)
(* the integer v * Scale); weights are whole lbf, ranges whole nautical    *)
(* miles, altitudes whole metres.  All arithmetic stays inside 32 bits.    *)
(* The three IEEE values a solve can produce from a zero or negative       *)
(* takeoff weight (inf, -inf, nan) are kept as three reserved integers.    *)
(***************************************************************************)
EXTENDS Integers, Sequences, FiniteSets, TLC

VARIABLES
  cur,    \* the solve in progress: its call frame and, once it ended, its outcome
  kept,   \* an earlier solve's outcome, still held by the caller
  lookup, \* the last direct call of structure_factor and what it gave
  atm,    \* the Atmosphere object a caller holds, or the failed construction
  loaded, \* the modules that have been imported
  corr    \* the last direct call of the two Mach correlations and what they gave
vars == <<cur, kept, lookup, atm, loaded, corr>>

Scale == 10^6

\* IEEE specials produced by numpy for x/0, 0**c and (negative)**c
PosInf == 2^30 + (2^30 - 1)
NegInf == -PosInf
NaN    == PosInf - 1
IsFinite(v) == v \notin {PosInf, NegInf, NaN}
\* a finite real that the fixed-point range does not carry, and a complex number
\* (Python's value of a negative float raised to a fractional power)
Beyond  == PosInf - 2
Complex == PosInf - 3
IsReal(v) == v \notin {PosInf, NegInf, NaN, Complex}

Abs(v) == IF v < 0 THEN -v ELSE v
Sgn(v) == IF v < 0 THEN -1 ELSE 1

(***************************************************************************)
(* Exact a*b/d on naturals without leaving 32 bits: <<q, r>> with          *)
(* a*b = q*d + r.  The product is taken directly when it fits; otherwise b *)
(* is expanded in the largest radix R for which 2*d*R fits (in radix 2,    *)
(* with the doubling done by subtraction, when d leaves no such R).        *)
(***************************************************************************)
\* <<q, r>> of 2*h + (a if odd), for h = <<q, r>> of the half
Doubled(h, a, odd, d) ==
  LET over == h[2] >= d - h[2]
      q2   == IF over THEN 2 * h[1] + 1 ELSE 2 * h[1]
      r2   == IF over THEN h[2] - (d - h[2]) ELSE 2 * h[2]
      am   == a % d
  IN  IF odd = 0 THEN <<q2, r2>>
      ELSE IF r2 >= d - am THEN <<q2 + (a \div d) + 1, r2 - (d - am)>>
      ELSE <<q2 + (a \div d), r2 + am>>

\* <<q + t div d, t mod d>>
Carry(q, t, d) == <<q + t \div d, t % d>>

\* <<q, r>> of R*h + a*low, for h = <<q, r>> of the high part of b
Widened(h, a, low, d, R) == Carry(h[1] * R + (a \div d) * low, h[2] * R + (a % d) * low, d)

Radix(d) == (PosInf \div 2) \div d

RECURSIVE MulDivNat(_, _, _)
MulDivNat(a, b, d) ==
  IF b = 0 \/ a <= PosInf \div b THEN <<(a * b) \div d, (a * b) % d>>
  ELSE IF Radix(d) >= 2
  THEN Widened(MulDivNat(a, b \div Radix(d), d), a, b % Radix(d), d, Radix(d))
  ELSE Doubled(MulDivNat(a, b \div 2, d), a, b % 2, d)

\* a*b/d, truncated toward zero
MulDiv(a, b, d) ==
  Sgn(a) * Sgn(b) * Sgn(d)
    * (IF Abs(a) >= Abs(b) THEN MulDivNat(Abs(a), Abs(b), Abs(d))
                           ELSE MulDivNat(Abs(b), Abs(a), Abs(d)))[1]

\* product and quotient of two fixed-point reals
Mul(a, b)  == MulDiv(a, b, Scale)
Quot(a, b) == MulDiv(a, Scale, b)

\* ln 2, six decimals
Ln2 == 693147

\* k with 2^k the largest power of two <= w (w >= 1)
Pow2Below(w) == CHOOSE k \in 0..30 : 2^k <= w /\ (k = 30 \/ w < 2^(k + 1))

RECURSIVE AtanhSeries(_, _, _, _)
\* z + z^3/3 + z^5/5 + ... ; term is the current odd power of z
AtanhSeries(z2, term, n, acc) ==
  IF acc + (term \div n) = acc THEN acc
  ELSE AtanhSeries(z2, Mul(term, z2), n + 2, acc + (term \div n))

\* natural logarithm of a fixed-point real m in [1, 2)
Atanh2(z) == 2 * AtanhSeries(Mul(z, z), z, 1, 0)
LnMantissa(m) == Atanh2(Quot(m - Scale, m + Scale))

\* natural logarithm of a whole number w >= 1
LnSplit(w, k) == k * Ln2 + LnMantissa(MulDiv(w, Scale, 2^k))
LnInt(w) == LnSplit(w, Pow2Below(w))

RECURSIVE LnNorm(_, _)
\* natural logarithm of a fixed-point real x > 0
LnNorm(x, k) ==
  IF x >= 2 * Scale THEN LnNorm(x \div 2, k + 1)
  ELSE IF x < Scale THEN LnNorm(2 * x, k - 1)
  ELSE k * Ln2 + LnMantissa(x)
Ln(x) == LnNorm(x, 0)

RECURSIVE ExpSeries(_, _, _, _)
\* 1 + r + r^2/2! + ... ; term is r^(n-1)/(n-1)!
ExpSeries(r, term, n, acc) ==
  IF acc + term = acc THEN acc
  ELSE ExpSeries(r, Mul(term, r) \div n, n + 1, acc + term)

\* e^y for a fixed-point real y
Shifted(e, n) == IF n >= 0 THEN e * 2^n ELSE e \div 2^(-n)
Exp(y) == Shifted(ExpSeries(y % Ln2, Scale, 1, 0), y \div Ln2)

RECURSIVE ISqrtIter(_, _)
\* Newton's iteration from x down to the floor of the square root of n
ISqrtIter(n, x) ==
  IF (x + n \div x) \div 2 < x THEN ISqrtIter(n, (x + n \div x) \div 2) ELSE x
\* floor of the square root of a whole number
ISqrt(n) == IF n = 0 THEN 0 ELSE ISqrtIter(n, IF n < 46340 THEN n ELSE 46340)

(***************************************************************************)
(* Strings are tuples of one-character strings, so that str.lower() is     *)
(* computed character by character.                                        *)
(***************************************************************************)
UpperChars == <<"A","B","C","D","E","F","G","H","I","J","K","L","M",
                "N","O","P","Q","R","S","T","U","V","W","X","Y","Z">>
LowerChars == <<"a","b","c","d","e","f","g","h","i","j","k","l","m",
                "n","o","p","q","r","s","t","u","v","w","x","y","z">>
LowerChar(ch) ==
  IF \E i \in 1..26 : UpperChars[i] = ch
  THEN LowerChars[CHOOSE i \in 1..26 : UpperChars[i] = ch]
  ELSE ch
\* str.lower()
lower(str) == [i \in 1..Len(str) |-> LowerChar(str[i])]

\* the string literals of the structure-factor chain
Tag_glider == <<"g","l","i","d","e","r">>
Tag_powered_glider == <<"p","o","w","e","r","e","d","-","g","l","i","d","e","r">>
Tag_indiv_constr == <<"i","n","d","i","v","-","c","o","n","s","t","r">>
Tag_indiv_constr_comp == <<"i","n","d","i","v","-","c","o","n","s","t","r","(","c","o","m","p",")">>
Tag_gen_aviation_1eng == <<"g","e","n","-","a","v","i","a","t","i","o","n","(","1","e","n","g",")">>
Tag_gen_aviation_2eng == <<"g","e","n","-","a","v","i","a","t","i","o","n","(","2","e","n","g",")">>
Tag_agricultural_plane == <<"a","g","r","i","c","u","l","t","u","r","a","l","-","p","l","a","n","e">>
Tag_turboprop_2eng == <<"t","u","r","b","o","p","r","o","p","(","2","e","n","g",")">>
Tag_seaplane == <<"s","e","a","p","l","a","n","e">>
Tag_training_jet == <<"t","r","a","i","n","i","n","g","-","j","e","t">>
Tag_combat_jet == <<"c","o","m","b","a","t","-","j","e","t">>
Tag_transport_jet == <<"t","r","a","n","s","p","o","r","t","-","j","e","t">>
Tag_bomber == <<"b","o","m","b","e","r">>

\* x ** c for a whole number x and an exponent of c100 hundredths, as numpy
\* evaluates it on float64: 0 ** negative is inf, negative ** fraction is nan
PowInt(x, c100) ==
  IF x > 0 THEN Exp(MulDiv(c100, LnInt(x), 100))
  ELSE IF x = 0 THEN PosInf
  ELSE NaN

\* a * p, where p may be inf or nan (a > 0)
Times(a, p) == IF IsFinite(p) THEN Mul(a, p) ELSE p

\* outcome of a call: a value, or the exception it raises
Ret(v)   == [exc |-> "", val |-> v]
Raise(e) == [exc |-> e, val |-> 0]

\* Weight.structure_factor: <<a, c>> of the branch taken (c in hundredths), <<>> for the else branch
structure_factor_ac(type_lower) ==
  IF type_lower = Tag_glider THEN <<860000, -5>>
  ELSE IF type_lower = Tag_powered_glider THEN <<910000, -5>>
  ELSE IF type_lower = Tag_indiv_constr THEN <<1190000, -9>>
  ELSE IF type_lower = Tag_indiv_constr_comp THEN <<1150000, -9>>
  ELSE IF type_lower = Tag_gen_aviation_1eng THEN <<2360000, -18>>
  ELSE IF type_lower = Tag_gen_aviation_2eng THEN <<1510000, -10>>
  ELSE IF type_lower = Tag_agricultural_plane THEN <<740000, -3>>
  ELSE IF type_lower = Tag_turboprop_2eng THEN <<960000, -5>>
  ELSE IF type_lower = Tag_seaplane THEN <<1090000, -5>>
  ELSE IF type_lower = Tag_training_jet THEN <<1590000, -10>>
  ELSE IF type_lower = Tag_combat_jet THEN <<2340000, -13>>
  ELSE IF type_lower = Tag_transport_jet THEN <<1020000, -6>>
  ELSE IF type_lower = Tag_bomber THEN <<930000, -7>>
  ELSE <<>>
\* the branch's sf = a * Wto ** c, or the else branch's raise
Branch(ac, Wto) ==
  IF ac = <<>> THEN Raise("ValueError")
  ELSE Ret(Times(ac[1], PowInt(Wto, ac[2])))
structure_factor(Type, Wto) == Branch(structure_factor_ac(lower(Type)), Wto)

(***************************************************************************)
(* IEEE arithmetic on values that may be inf or nan.                       *)
(***************************************************************************)
Neg(a) == IF a = NaN THEN NaN ELSE -a
Add(a, b) ==
  IF a = NaN \/ b = NaN THEN NaN
  ELSE IF a = PosInf THEN (IF b = NegInf THEN NaN ELSE PosInf)
  ELSE IF a = NegInf THEN (IF b = PosInf THEN NaN ELSE NegInf)
  ELSE IF b \in {PosInf, NegInf} THEN b
  ELSE a + b
\* whole number n divided by whole number d, as a real (numpy: no exception)
Div(n, d) ==
  IF d # 0 THEN MulDiv(n, Scale, d)
  ELSE IF n = 0 THEN NaN
  ELSE IF n > 0 THEN PosInf ELSE NegInf
\* real f times whole number w, as a whole number
TimesInt(f, w) ==
  IF f = NaN THEN NaN
  ELSE IF f \in {PosInf, NegInf}
       THEN (IF w = 0 THEN NaN ELSE IF (w > 0) = (f = PosInf) THEN PosInf ELSE NegInf)
  ELSE MulDiv(f, w, Scale)

(***************************************************************************)
(* Constants, Atmosphere                                                   *)
(***************************************************************************)
temperature_variation_altitudem == -6500
R_air == 286900000
gamma_air == 1400000
temperature_zero == 288160000
altitude_junction == 11000
temperature_junction == 216660000

\* Atmosphere.compute_temperature
compute_temperature(altitude) ==
  IF altitude < altitude_junction
  THEN (IF altitude < -32000 THEN Beyond
        ELSE temperature_zero + temperature_variation_altitudem * altitude)
  ELSE temperature_junction

\* square root of a real given in ten-thousandths (x4 = 10^4 * x), as a real
Refined(x4, s) == IF s = 0 THEN 0 ELSE s * 10^4 + ((x4 - s * s) * 10^4) \div (2 * s)
SqrtReal(x4) == Refined(x4, ISqrt(x4))

\* Atmosphere.compute_sound_speed
compute_sound_speed(temperature_K) ==
  IF temperature_K = Beyond THEN Beyond
  ELSE SqrtReal(Mul(Mul(gamma_air, R_air) \div 100, temperature_K))

\* Atmosphere.__init__, the fields the sizing reads
Fields(altitude, T) ==
  [altitude |-> altitude, temperature_K |-> T, sound_speed |-> compute_sound_speed(T)]
Atmosphere(altitude) == Fields(altitude, compute_temperature(altitude))

(***************************************************************************)
(* class Weight: the phase fractions and the residual                      *)
(***************************************************************************)
\* a finesse whose subsonic branch also takes Mach 1
finesse_inclusive(Mach, A) ==
  IF Mach <= Scale THEN A + 10 * Scale
  ELSE Mul(11 * Scale, Exp(-(Ln(Mach) \div 2)))

\* Weight.finesse
finesse(Mach, A) ==
  IF Mach < Scale THEN A + 10 * Scale
  ELSE Mul(11 * Scale, Exp(-(Ln(Mach) \div 2)))

\* Weight.fclimb
fclimb(M_cruise) ==
  IF M_cruise < Scale THEN Scale - Mul(40000, M_cruise)
  ELSE 960000 - Mul(30000, M_cruise - Scale)

\* Weight.vitesse
vitesse(mach, altitude) == Mul(mach, Atmosphere(altitude).sound_speed)

\* Weight.floiter
LoiterFraction(T_loiter, TSFC, ldmax) ==
  IF ldmax = 0 THEN Raise("ZeroDivisionError")
  ELSE Ret(Quot(Scale, Exp(Quot(T_loiter * TSFC, ldmax) \div 60)))
floiter(M_cruise, T_loiter, TSFC, A) == LoiterFraction(T_loiter, TSFC, finesse(M_cruise, A))

\* Range * TSFC * 6080 / (vc * ld * 3600), taken as
\* ((Range * 76 * TSFC / 45) / vc) / ld, with vc to four decimals
CruiseExponent(Range, TSFC, vc, ld) ==
  Quot(MulDiv(MulDiv(Range * 76, TSFC, 450), 10^5, vc \div 100), ld)

\* Weight.fcruise
CruiseFraction(Range, TSFC, vc, ld) ==
  IF vc = 0 \/ ld = 0 THEN Raise("ZeroDivisionError")
  ELSE Ret(Quot(Scale, Exp(CruiseExponent(Range, TSFC, vc, ld))))
fcruise(M_cruise, H_cruise, A, Range, TSFC) ==
  CruiseFraction(Range, TSFC, vitesse(M_cruise, H_cruise), Mul(866000, finesse(M_cruise, A)))

\* takeoff-weight fraction of fpoids (fland, also 0.975, is assigned and never read)
fdec == 975000

\* outcome of one residual evaluation: the exception raised or the value, the
\* Mach number the evaluation read (NaN when it raised before reading one), the
\* altitude it constructed its Atmosphere with (NaN when it constructed none)
\* and the value of its phase term (NaN when it raised before it had one)
Residual(e, v, m, h, ph) == [exc |-> e, val |-> v, mach |-> m, alt |-> h, phase |-> ph]

\* a phase term of the opposite sign
PhaseTerm_negated(fcl, fcr, flo) == Mul(Mul(fdec, fcl) - Scale, Scale + Mul(fcr, flo))

\* (1 - fdec*fclimb) * (1 + fcruise*floiter)
PhaseTerm(fcl, fcr, flo) == Mul(Scale - Mul(fdec, fcl), Scale + Mul(fcr, flo))

\* 1 - (Wpayload / Wto + sf + phase term)
Closed(Wto, Wpayload, M_cruise, H, sfv, ph) ==
  Residual("", Add(Scale, Neg(Add(Add(Div(Wpayload, Wto), sfv), ph))), M_cruise, H, ph)

\* a residual whose cruise fraction is weighted by the structure factor, so
\* that its phase term moves with Wto
resw_coupled(Wto, Wpayload, M_cruise, H, sf, fcl, fc, fl) ==
  IF sf.exc # "" THEN Residual(sf.exc, 0, NaN, NaN, NaN)
  ELSE IF fc.exc # "" THEN Residual(fc.exc, 0, M_cruise, H, NaN)
  ELSE IF fl.exc # "" THEN Residual(fl.exc, 0, M_cruise, H, NaN)
  ELSE Closed(Wto, Wpayload, M_cruise, H, sf.val,
              PhaseTerm(fcl, IF IsFinite(sf.val) THEN Mul(fc.val, sf.val) ELSE fc.val, fl.val))

\* Weight.fpoids
\* resw of fpoids from its terms: sf is evaluated first, then the phase fractions;
\* H is the altitude fcruise handed to Atmosphere (NaN when it raised before)
resw(Wto, Wpayload, M_cruise, H, sf, fcl, fc, fl) ==
  IF sf.exc # "" THEN Residual(sf.exc, 0, NaN, NaN, NaN)
  ELSE IF fc.exc # "" THEN Residual(fc.exc, 0, M_cruise, H, NaN)
  ELSE IF fl.exc # "" THEN Residual(fl.exc, 0, M_cruise, H, NaN)
  ELSE Closed(Wto, Wpayload, M_cruise, H, sf.val, PhaseTerm(fcl, fc.val, fl.val))

\* a residual that carries the reserve fuel as extra payload
fpoids_reserving(Wto, Range, Type, Wpayload, TSFC, T_loiter, A, Fuel_res, Fuel_trap, M_cruise, H_cruise) ==
  resw(Wto, Wpayload + MulDiv(Fuel_res, Wpayload, Scale), M_cruise, H_cruise,
       structure_factor(Type, Wto), fclimb(M_cruise),
       fcruise(M_cruise, H_cruise, A, Range, TSFC), floiter(M_cruise, T_loiter, TSFC, A))

\* Weight.fpoids
fpoids(Wto, Range, Type, Wpayload, TSFC, T_loiter, A, Fuel_res, Fuel_trap, M_cruise, H_cruise) ==
  resw(Wto, Wpayload, M_cruise, H_cruise, structure_factor(Type, Wto), fclimb(M_cruise),
       fcruise(M_cruise, H_cruise, A, Range, TSFC), floiter(M_cruise, T_loiter, TSFC, A))

(***************************************************************************)
(* PyPlanePackage/plane/plane_mass.py (pm) and                             *)
(* Plane_Design_Package/Plane/plane_mass.py (pd): the script variants.     *)
(* Their fpoids takes no Mach and no altitude: it reads the module-level   *)
(* M_cruise and H_cruise that the script assigns before it calls itertow.  *)
(***************************************************************************)
pm_M_cruise == 820000
pm_H_cruise == 40000
pd_M_cruise == 820000
pd_H_cruise == 40000

\* a structure_factor whose else branch takes a default pair instead of raising
pm_structure_factor_ac_default(type_lower) ==
  IF structure_factor_ac(type_lower) # <<>> THEN structure_factor_ac(type_lower)
  ELSE <<1000000, 0>>

\* a copy of the table whose seaplane row has the turboprop's coefficient
pm_structure_factor_ac_seaplane(type_lower) ==
  IF type_lower = Tag_seaplane THEN <<960000, -5>> ELSE structure_factor_ac(type_lower)

\* plane_mass.structure_factor (PyPlanePackage): <<a, c>> of the branch taken (c in hundredths), <<>> for the else branch
pm_structure_factor_ac(type_lower) ==
  IF type_lower = Tag_glider THEN <<860000, -5>>
  ELSE IF type_lower = Tag_powered_glider THEN <<910000, -5>>
  ELSE IF type_lower = Tag_indiv_constr THEN <<1190000, -9>>
  ELSE IF type_lower = Tag_indiv_constr_comp THEN <<1150000, -9>>
  ELSE IF type_lower = Tag_gen_aviation_1eng THEN <<2360000, -18>>
  ELSE IF type_lower = Tag_gen_aviation_2eng THEN <<1510000, -10>>
  ELSE IF type_lower = Tag_agricultural_plane THEN <<740000, -3>>
  ELSE IF type_lower = Tag_turboprop_2eng THEN <<960000, -5>>
  ELSE IF type_lower = Tag_seaplane THEN <<1090000, -5>>
  ELSE IF type_lower = Tag_training_jet THEN <<1590000, -10>>
  ELSE IF type_lower = Tag_combat_jet THEN <<2340000, -13>>
  ELSE IF type_lower = Tag_transport_jet THEN <<1020000, -6>>
  ELSE IF type_lower = Tag_bomber THEN <<930000, -7>>
  ELSE <<>>
pm_structure_factor(Type, Wto) == Branch(pm_structure_factor_ac(lower(Type)), Wto)

\* a table whose bomber branch has a positive exponent
pd_structure_factor_ac_rising(type_lower) ==
  IF type_lower = Tag_bomber THEN <<930000, 7>> ELSE structure_factor_ac(type_lower)

\* plane_mass.structure_factor (Plane_Design_Package): <<a, c>> of the branch taken (c in hundredths), <<>> for the else branch
pd_structure_factor_ac(type_lower) ==
  IF type_lower = Tag_glider THEN <<860000, -5>>
  ELSE IF type_lower = Tag_powered_glider THEN <<910000, -5>>
  ELSE IF type_lower = Tag_indiv_constr THEN <<1190000, -9>>
  ELSE IF type_lower = Tag_indiv_constr_comp THEN <<1150000, -9>>
  ELSE IF type_lower = Tag_gen_aviation_1eng THEN <<2360000, -18>>
  ELSE IF type_lower = Tag_gen_aviation_2eng THEN <<1510000, -10>>
  ELSE IF type_lower = Tag_agricultural_plane THEN <<740000, -3>>
  ELSE IF type_lower = Tag_turboprop_2eng THEN <<960000, -5>>
  ELSE IF type_lower = Tag_seaplane THEN <<1090000, -5>>
  ELSE IF type_lower = Tag_training_jet THEN <<1590000, -10>>
  ELSE IF type_lower = Tag_combat_jet THEN <<2340000, -13>>
  ELSE IF type_lower = Tag_transport_jet THEN <<1020000, -6>>
  ELSE IF type_lower = Tag_bomber THEN <<930000, -7>>
  ELSE <<>>
pd_structure_factor(Type, Wto) == Branch(pd_structure_factor_ac(lower(Type)), Wto)

\* plane_mass.fcruise (PyPlanePackage): vitesse(mach, altitude) is called as
\* vitesse(M_cruise), which raises TypeError once ldmax and ld are computed
pm_fcruise(M_cruise, H_cruise, A, Range, TSFC) == Raise("TypeError")

\* plane_mass.fcruise (Plane_Design_Package): vitesse(M_cruise, sound_speed)
\* names a sound_speed that no scope defines, which raises NameError
pd_fcruise(M_cruise, H_cruise, A, Range, TSFC) == Raise("NameError")

\* plane_mass.fpoids (PyPlanePackage)
pm_fpoids(Wto, Range, Type, Wpayload, TSFC, T_loiter, A, Fuel_res, Fuel_trap) ==
  resw(Wto, Wpayload, pm_M_cruise, NaN, pm_structure_factor(Type, Wto), fclimb(pm_M_cruise),
       pm_fcruise(pm_M_cruise, pm_H_cruise, A, Range, TSFC), Ret(0))

\* plane_mass.fpoids (Plane_Design_Package)
pd_fpoids(Wto, Range, Type, Wpayload, TSFC, T_loiter, A, Fuel_res, Fuel_trap) ==
  resw(Wto, Wpayload, pd_M_cruise, NaN, pd_structure_factor(Type, Wto), fclimb(pd_M_cruise),
       pd_fcruise(pd_M_cruise, pd_H_cruise, A, Range, TSFC), Ret(0))

(***************************************************************************)
(* Missions the caller passes.                                             *)
(***************************************************************************)
Mission(Type, M_cruise, H_cruise, A, TSFC, T_loiter, Fuel_res, Fuel_trap, Wpayload, flight_range) ==
  [Type |-> Type, M_cruise |-> M_cruise, H_cruise |-> H_cruise, A |-> A, TSFC |-> TSFC,
   T_loiter |-> T_loiter, Fuel_res |-> Fuel_res, Fuel_trap |-> Fuel_trap,
   Wpayload |-> Wpayload, flight_range |-> flight_range]

Str_Transport_Jet   == <<"T","r","a","n","s","p","o","r","t","-","J","e","t">>
Str_biplane_unknown == <<"b","i","p","l","a","n","e","-","u","n","k","n","o","w","n">>
Str_jet_transport   == <<"j","e","t","-","t","r","a","n","s","p","o","r","t">>

\* test_script_results/plane/example.py: the known-value mission
KnownMission ==
  Mission(Tag_transport_jet, 820000, 40000, 10 * Scale, 450000, 45, 50000, 10000, 30750, 3500)

Missions ==
  << KnownMission,
     [KnownMission EXCEPT !.Wpayload = 0],
     [KnownMission EXCEPT !.Type = Str_biplane_unknown],
     [KnownMission EXCEPT !.Type = Str_jet_transport],
     [KnownMission EXCEPT !.Type = Str_Transport_Jet],
     [KnownMission EXCEPT !.M_cruise = -Scale, !.flight_range = 0],
     Mission(Tag_combat_jet, 2 * Scale, 40000, 4 * Scale, 800000, 20, 50000, 10000, 100, 800),
     Mission(Tag_bomber, 1500000, 12000, 6 * Scale, 900000, 30, 50000, 10000, 20000, 1500),
     [KnownMission EXCEPT !.Fuel_res = 100000, !.Fuel_trap = 0] >>
MissionIds == 1..Len(Missions)

\* the three implementations of the closure
Impls == {"Weight", "pm", "pd"}

(***************************************************************************)
(* scipy.optimize.fsolve(func, x0, xtol=1e-6), as the solve uses it.       *)
(* fsolve first evaluates func(x0) once to check its shape, then runs      *)
(* MINPACK's hybrd: f(x0), a forward-difference slope, then secant-updated *)
(* steps; a step is kept only if it lowers |f|.  It stops with ier = 1     *)
(* (step within xtol), 2 (MaxFev evaluations used) or 5 (MaxSlow steps     *)
(* without progress) and returns x whatever ier is: ier # 1 only emits a   *)
(* RuntimeWarning.  An exception of func passes through fsolve to the      *)
(* caller.                                                                 *)
(***************************************************************************)
MaxFev  == 10
MaxSlow == 3
\* solves the caller is followed through after it kept an outcome
MaxBetween == 2

\* xtol * |x|, at least one weight unit (whole lbf are the resolution)
XTol(x) == IF Abs(x) \div 10^6 > 1 THEN Abs(x) \div 10^6 ELSE 1

NoOutcome ==
  [kind |-> "none", exc |-> "", ier |-> 0, take_off |-> 0, empty |-> 0, fuel |-> 0,
   payload |-> 0, structure_factor |-> 0, printed |-> FALSE, value |-> "none",
   warnings |-> {}]

\* what fsolve emits on its way out: a RuntimeWarning unless ier = 1
Warnings(ier) == IF ier = 1 THEN {} ELSE {"RuntimeWarning"}

Idle ==
  [pc |-> "idle", impl |-> "none", m |-> 0, x |-> 0, fx |-> 0, dx |-> 0, df |-> 0,
   nfev |-> 0, ncalls |-> 0, nslow |-> 0, ier |-> 0, mach |-> NaN, out |-> NoOutcome,
   by |-> "none", alt |-> NaN, phase |-> NaN, phase0 |-> NaN, nruns |-> 0, x0 |-> 0]

NoKept == [impl |-> "none", m |-> 0, out |-> NoOutcome, since |-> 0]
NoLookup ==
  [impl |-> "none", Type |-> <<>>, Wto |-> 0, ret |-> Ret(0), called |-> FALSE, bound |-> FALSE]

\* no Atmosphere has been constructed
NoAtmosphere ==
  [variant |-> "none", arg |-> 0, altitude |-> 0, temperature_K |-> 0, temperature_C |-> 0,
   pressure |-> 0, density |-> 0, sound_speed |-> 0, gravity |-> 0, exc |-> "", built |-> FALSE,
   called |-> FALSE]

\* neither correlation has been called
NoCorr == [op |-> "none", mach |-> 0, A |-> 0, ret |-> 0, called |-> FALSE]

Init ==
  /\ cur = Idle
  /\ kept = NoKept
  /\ lookup = NoLookup
  /\ atm = NoAtmosphere
  /\ loaded = {}
  /\ corr = NoCorr

(***************************************************************************)
(* The solve, one residual evaluation per step.                            *)
(***************************************************************************)
\* a residual that takes its Mach number from the mission of the outcome the
\* caller kept, when there is one, instead of from its own arguments
Func_shared(impl, ms, Wto) ==
  IF Wto = NaN THEN Residual("", NaN, ms.M_cruise, NaN, NaN)
  ELSE IF impl = "Weight"
  THEN fpoids(Wto, ms.flight_range, ms.Type, ms.Wpayload, ms.TSFC, ms.T_loiter, ms.A,
              ms.Fuel_res, ms.Fuel_trap,
              IF kept.m # 0 THEN Missions[kept.m].M_cruise ELSE ms.M_cruise, ms.H_cruise)
  ELSE IF impl = "pm"
  THEN pm_fpoids(Wto, ms.flight_range, ms.Type, ms.Wpayload, ms.TSFC, ms.T_loiter, ms.A,
                 ms.Fuel_res, ms.Fuel_trap)
  ELSE pd_fpoids(Wto, ms.flight_range, ms.Type, ms.Wpayload, ms.TSFC, ms.T_loiter, ms.A,
                 ms.Fuel_res, ms.Fuel_trap)

\* fpoids of the implementation at a takeoff weight that is a number
FuncAt(impl, ms, Wto) ==
  IF impl = "Weight"
  THEN fpoids(Wto, ms.flight_range, ms.Type, ms.Wpayload, ms.TSFC, ms.T_loiter, ms.A,
              ms.Fuel_res, ms.Fuel_trap, ms.M_cruise, ms.H_cruise)
  ELSE IF impl = "pm"
  THEN pm_fpoids(Wto, ms.flight_range, ms.Type, ms.Wpayload, ms.TSFC, ms.T_loiter, ms.A,
                 ms.Fuel_res, ms.Fuel_trap)
  ELSE pd_fpoids(Wto, ms.flight_range, ms.Type, ms.Wpayload, ms.TSFC, ms.T_loiter, ms.A,
                 ms.Fuel_res, ms.Fuel_trap)

\* fpoids at Wto = nan: Wpayload / Wto and a * Wto ** c are nan and raise
\* nothing, the phase fractions are evaluated as at any Wto, the sum is nan
OfNaN(r) == IF r.exc = "" THEN [r EXCEPT !.val = NaN] ELSE r

\* the lambda handed to fsolve: func(Wto) of the implementation, for mission ms
Func(impl, ms, Wto) ==
  IF Wto = NaN THEN OfNaN(FuncAt(impl, ms, 1)) ELSE FuncAt(impl, ms, Wto)

\* self.structure_factor(Type, Wto) as an instance finds it: once __init__ has
\* stored the result's structure factor under that name, the attribute is that
\* number, and calling a number raises TypeError
bound_structure_factor(built, Type, Wto) ==
  IF built THEN Raise("TypeError") ELSE structure_factor(Type, Wto)

\* self.fpoids of a Weight object whose __init__ has completed
self_fpoids(Wto, ms) ==
  resw(Wto, ms.Wpayload, ms.M_cruise, ms.H_cruise, bound_structure_factor(TRUE, ms.Type, Wto),
       fclimb(ms.M_cruise), fcruise(ms.M_cruise, ms.H_cruise, ms.A, ms.flight_range, ms.TSFC),
       floiter(ms.M_cruise, ms.T_loiter, ms.TSFC, ms.A))

\* func(Wto) of the solve of the frame: the object under construction, the
\* script's functions, or an object that was constructed before
FuncOn(frame, ms, Wto) ==
  IF frame.by = "instance" THEN self_fpoids(Wto, ms) ELSE Func(frame.impl, ms, Wto)

\* what one evaluation of func leaves in the frame
Read(frame, r) ==
  [frame EXCEPT !.ncalls = @ + 1, !.mach = r.mach, !.alt = r.alt, !.phase = r.phase,
                !.phase0 = IF frame.ncalls = 0 THEN r.phase ELSE @]

\* the frame after func raised exception e: the solve ends, nothing is returned
Raised(frame, r) ==
  [Read(frame, r) EXCEPT !.pc = "done",
                         !.out = [NoOutcome EXCEPT !.kind = "raised", !.exc = r.exc]]

\* Weight(...) / itertow(...) is called: fsolve is entered with x0 = Wpayload
Call(impl, m) ==
  /\ cur.pc = "idle"
  /\ cur' = [Idle EXCEPT !.pc = "check", !.impl = impl, !.m = m, !.x = Missions[m].Wpayload,
                         !.by = "caller", !.nruns = 1, !.x0 = Missions[m].Wpayload]
  /\ UNCHANGED <<kept, lookup, atm, loaded, corr>>

\* the mission the two plane_mass.py scripts assign at module level
ScriptMission == CHOOSE m \in MissionIds : Missions[m] = [KnownMission EXCEPT !.Type = Str_jet_transport]

\* import of a module: weight.py only defines class Weight; each plane_mass.py
\* defines its functions, assigns the script's mission and calls itertow on it
Load(module) ==
  /\ cur.pc = "idle"
  /\ module \notin loaded
  /\ IF module = "Weight"
     THEN cur' = cur /\ loaded' = loaded \cup {module}
     ELSE /\ cur' = [Idle EXCEPT !.pc = "check", !.impl = module, !.m = ScriptMission,
                                 !.x = Missions[ScriptMission].Wpayload, !.by = "load",
                                 !.nruns = 1, !.x0 = Missions[ScriptMission].Wpayload]
          /\ loaded' = loaded
  /\ UNCHANGED <<kept, lookup, atm, corr>>

\* a shape check that swallows the exception of func and goes on to hybrd
Checked_late(frame, r) == [frame EXCEPT !.pc = "hybrd", !.ncalls = @ + 1, !.mach = r.mach]

\* fsolve's shape check: the first evaluation of func, at x0
Checked(frame, r) ==
  IF r.exc # "" THEN Raised(frame, r)
  ELSE [Read(frame, r) EXCEPT !.pc = "hybrd"]
CheckFunc ==
  /\ cur.pc = "check"
  /\ cur' = Checked(cur, FuncOn(cur, Missions[cur.m], cur.x))
  /\ UNCHANGED <<kept, lookup, atm, loaded, corr>>

\* hybrd: f(x0)
Started(frame, r) ==
  IF r.exc # "" THEN Raised(frame, r)
  ELSE [Read(frame, r) EXCEPT !.pc = "jac", !.nfev = 1, !.fx = r.val]
HybrdStart ==
  /\ cur.pc = "hybrd"
  /\ cur' = Started(cur, FuncOn(cur, Missions[cur.m], cur.x))
  /\ UNCHANGED <<kept, lookup, atm, loaded, corr>>

\* hybrd: the forward-difference slope, from f one weight unit above x0
Sloped(frame, r) ==
  IF r.exc # "" THEN Raised(frame, r)
  ELSE [Read(frame, r) EXCEPT !.pc = "iter", !.nfev = 2, !.dx = 1,
                              !.df = Add(r.val, Neg(frame.fx))]
Jacobian ==
  /\ cur.pc = "jac"
  /\ cur' = Sloped(cur, FuncOn(cur, Missions[cur.m], cur.x + 1))
  /\ UNCHANGED <<kept, lookup, atm, loaded, corr>>

\* the secant step from the frame's last step and slope; nan when there is none
Trial(frame) ==
  IF IsFinite(frame.fx) /\ IsFinite(frame.df) /\ frame.df # 0
  THEN frame.x - MulDiv(frame.fx, frame.dx, frame.df)
  ELSE NaN

\* hybrd's stopping tests after a step to x1 with residual fx1
Info(frame, trial, x1, fx1, nfev1, nslow1) ==
  IF (trial # NaN /\ Abs(trial - frame.x) <= XTol(x1)) \/ fx1 = 0 THEN 1
  ELSE IF nfev1 >= MaxFev THEN 2
  ELSE IF nslow1 >= MaxSlow THEN 5
  ELSE 0

Stepped(frame, trial, r, accept, ier) ==
  IF r.exc # "" THEN Raised(frame, r)
  ELSE [Read(frame, r) EXCEPT !.pc = IF ier = 0 THEN "iter" ELSE "post", !.nfev = @ + 1,
                     !.nslow = IF accept THEN 0 ELSE @ + 1, !.ier = ier,
                     !.x = IF accept THEN trial ELSE @,
                     !.fx = IF accept THEN r.val ELSE @,
                     !.dx = IF accept THEN trial - frame.x ELSE @,
                     !.df = IF accept THEN r.val - frame.fx ELSE @]

Accepted(frame, trial, r, accept) ==
  Stepped(frame, trial, r, accept,
          Info(frame, trial, IF accept THEN trial ELSE frame.x,
               IF accept THEN r.val ELSE frame.fx, frame.nfev + 1,
               IF accept THEN 0 ELSE frame.nslow + 1))

Tried(frame, trial, r) ==
  Accepted(frame, trial, r, IsFinite(r.val) /\ Abs(r.val) < Abs(frame.fx))

\* hybrd: one step x - f/slope, kept if it lowers |f|; then the stopping tests
Step(frame, trial) == Tried(frame, trial, FuncOn(frame, Missions[frame.m], trial))
Iterate ==
  /\ cur.pc = "iter"
  /\ cur' = Step(cur, Trial(cur))
  /\ UNCHANGED <<kept, lookup, atm, loaded, corr>>

\* Sfactor, Wempty, Wfuel of iterate_take_off_weight / itertow, from the Wto
\* fsolve returned and the implementation's structure factor sfr
Weights(Wto, Sfactor, Wempty, Wpayload) ==
  [Wto |-> Wto, Wempty |-> Wempty,
   Wfuel |-> Add(Add(Wto, Neg(Wempty)), Neg(Wpayload)), Sfactor |-> Sfactor]
Breakdown(Wto, sfr, Wpayload) == Weights(Wto, sfr.val, TimesInt(sfr.val, Wto), Wpayload)

\* Weight.__init__ after iterate_take_off_weight returned (Wto, Wempty, Wfuel)
WeightObject(b, sfr, Wpayload, ier) ==
  [kind |-> "returned", exc |-> "", ier |-> ier, take_off |-> b.Wto, empty |-> b.Wempty,
   fuel |-> b.Wfuel, payload |-> Wpayload, structure_factor |-> sfr.val,
   printed |-> FALSE, value |-> "Weight", warnings |-> Warnings(ier)]

\* itertow: the four weights are printed and None is returned
Printed(b, Wpayload, ier) ==
  [kind |-> "returned", exc |-> "", ier |-> ier, take_off |-> b.Wto, empty |-> b.Wempty,
   fuel |-> b.Wfuel, payload |-> Wpayload, structure_factor |-> b.Sfactor,
   printed |-> TRUE, value |-> "None", warnings |-> Warnings(ier)]

\* the statements after fsolve: the breakdown, then the return / the prints
\* the implementation's structure factor at the Wto fsolve returned
Sfactor(impl, Type, Wto) ==
  IF impl = "Weight" THEN structure_factor(Type, Wto)
  ELSE IF impl = "pm" THEN pm_structure_factor(Type, Wto)
  ELSE pd_structure_factor(Type, Wto)

\* the <<a, c>> pair the implementation's chain selects
Sfactor_ac(impl, type_lower) ==
  IF impl = "Weight" THEN structure_factor_ac(type_lower)
  ELSE IF impl = "pm" THEN pm_structure_factor_ac(type_lower)
  ELSE pd_structure_factor_ac(type_lower)

Outcome(frame, ms, sfr, b) ==
  IF sfr.exc # "" THEN [NoOutcome EXCEPT !.kind = "raised", !.exc = sfr.exc]
  ELSE IF frame.impl = "Weight"
  THEN WeightObject(b, structure_factor(ms.Type, b.Wto), ms.Wpayload, frame.ier)
  ELSE Printed(b, ms.Wpayload, frame.ier)

Broken(frame, ms, sfr) == Outcome(frame, ms, sfr, Breakdown(frame.x, sfr, ms.Wpayload))

\* Sfactor = structure_factor(Type, Wto) after fsolve, as the solve finds it
SfactorOn(frame, Type, Wto) ==
  IF frame.by = "instance" THEN bound_structure_factor(TRUE, Type, Wto)
  ELSE Sfactor(frame.impl, Type, Wto)

\* a solve that starts the root-finder again, from twice the payload plus one,
\* when its first run did not converge
Finished_retry(frame, ms) ==
  IF frame.ier # 1 /\ frame.nruns = 1
  THEN [frame EXCEPT !.pc = "check", !.x = 2 * ms.Wpayload + 1, !.x0 = 2 * ms.Wpayload + 1,
                     !.nruns = 2, !.nfev = 0, !.ncalls = 0, !.nslow = 0, !.ier = 0]
  ELSE [frame EXCEPT !.pc = "done", !.out = Broken(frame, ms, SfactorOn(frame, ms.Type, frame.x))]

Finished(frame, ms) ==
  [frame EXCEPT !.pc = "done", !.out = Broken(frame, ms, SfactorOn(frame, ms.Type, frame.x))]

Finish ==
  /\ cur.pc = "post"
  /\ cur' = Finished(cur, Missions[cur.m])
  /\ loaded' = IF cur.by = "load" THEN loaded \cup {cur.impl} ELSE loaded
  /\ UNCHANGED <<kept, lookup, atm, corr>>

\* the caller keeps what the solve gave and goes on
Keep ==
  /\ cur.pc = "done"
  /\ kept' = [impl |-> cur.impl, m |-> cur.m, out |-> cur.out, since |-> 0]
  /\ cur' = Idle
  /\ UNCHANGED <<lookup, atm, loaded, corr>>

\* the caller drops what the solve gave; one more solve since the kept one
Release ==
  /\ cur.pc = "done"
  /\ cur' = Idle
  /\ kept' = IF kept.m # 0 /\ kept.since < MaxBetween
             THEN [kept EXCEPT !.since = @ + 1] ELSE kept
  /\ UNCHANGED <<lookup, atm, loaded, corr>>

Next ==
  \/ \E module \in Impls : Load(module)
  \/ \E impl \in Impls, m \in MissionIds : Call(impl, m)
  \/ CheckFunc
  \/ HybrdStart
  \/ Jacobian
  \/ Iterate
  \/ Finish
  \/ Keep
  \/ Release

Spec == Init /\ [][Next]_vars

(***************************************************************************)
(* A caller that goes on using the Weight object it kept: it calls the     *)
(* object's iterate_take_off_weight and structure_factor again.            *)
(***************************************************************************)
\* w.iterate_take_off_weight(...) on the kept object w, for mission m
CallOn(m) ==
  /\ cur.pc = "idle"
  /\ kept.out.value = "Weight"
  /\ cur' = [Idle EXCEPT !.pc = "check", !.impl = "Weight", !.m = m, !.x = Missions[m].Wpayload,
                         !.by = "instance", !.nruns = 1, !.x0 = Missions[m].Wpayload]
  /\ UNCHANGED <<kept, lookup, atm, loaded, corr>>

ReuseWeights == {30750, 77961}

\* w.structure_factor(Type, Wto) on the kept object w
LookupOn(Type, Wto) ==
  /\ cur.pc = "idle"
  /\ kept.out.value = "Weight"
  /\ lookup' = [impl |-> "Weight", Type |-> Type, Wto |-> Wto,
                ret |-> bound_structure_factor(kept.out.value = "Weight", Type, Wto),
                called |-> TRUE, bound |-> TRUE]
  /\ UNCHANGED <<cur, kept, atm, loaded, corr>>

NextReuse ==
  \/ Next
  \/ \E m \in MissionIds : CallOn(m)
  \/ \E Wto \in ReuseWeights : LookupOn(Tag_transport_jet, Wto)

SpecReuse == Init /\ [][NextReuse]_vars

(***************************************************************************)
(* structure_factor called on its own, on any string and positive weight.  *)
(***************************************************************************)
Tags ==
  {Tag_glider, Tag_powered_glider, Tag_indiv_constr, Tag_indiv_constr_comp,
   Tag_gen_aviation_1eng, Tag_gen_aviation_2eng, Tag_agricultural_plane,
   Tag_turboprop_2eng, Tag_seaplane, Tag_training_jet, Tag_combat_jet,
   Tag_transport_jet, Tag_bomber}

UpperChar(ch) ==
  IF \E i \in 1..26 : LowerChars[i] = ch
  THEN UpperChars[CHOOSE i \in 1..26 : LowerChars[i] = ch]
  ELSE ch
\* str.upper() and str.capitalize(), to spell a tag in other cases
upper(str) == [i \in 1..Len(str) |-> UpperChar(str[i])]
capitalize(str) == [i \in 1..Len(str) |-> IF i = 1 THEN UpperChar(str[i]) ELSE str[i]]

\* strings that are no tag in any case
Strangers ==
  {Str_biplane_unknown, Str_jet_transport, <<>>, <<"j","e","t">>,
   <<"g","l","i","d","e","r"," ">>, <<"t","r","a","n","s","p","o","r","t","j","e","t">>,
   <<"g","e","n","-","a","v","i","a","t","i","o","n">>, <<"b","o","m","b","e","r","s">>}

TypeStrings == Tags \cup {upper(t) : t \in Tags} \cup {capitalize(t) : t \in Tags} \cup Strangers
LookupWeights == {1, 30750, 77961}

Lookup(impl, Type, Wto) ==
  /\ lookup' = [impl |-> impl, Type |-> Type, Wto |-> Wto,
                ret |-> Sfactor(impl, Type, Wto), called |-> TRUE, bound |-> FALSE]
  /\ UNCHANGED <<cur, kept, atm, loaded, corr>>

NextSF == \E impl \in Impls, Type \in TypeStrings, Wto \in LookupWeights : Lookup(impl, Type, Wto)

SpecSF == Init /\ [][NextSF]_vars

(***************************************************************************)
(* The Atmosphere objects: PyPlanePackage/atmosphere and                   *)
(* Plane_Design_Package/atmosphere (the two-layer model, the same          *)
(* formulas) and src/atmosphere (the single-formula model).  Altitudes are *)
(* whole metres up to 50 km, pressures hundredths of a pascal.  The        *)
(* viscosity field of the PyPlanePackage object is left out: the constants *)
(* of Sutherland's law are in a file that is not among the sources.        *)
(***************************************************************************)
earth_radius == 6371000
gravity_zero == 9810000
density_zero == 1223700
pressure_zero == 10132500

\* math.pow(x, y) for x > 0 and y > 0
Pow(x, y) == IF x = Beyond THEN Beyond ELSE Exp(Mul(y, Ln(x)))
\* c * f for a constant c and a factor f
ScaleBy(c, f) == IF f = Beyond THEN Beyond ELSE MulDiv(c, f, Scale)
\* temperature_K / Constants.temperature_zero
TemperatureRatio(T) == IF T = Beyond THEN Beyond ELSE Quot(T, temperature_zero)
\* -Constants.gravity_zero / (Constants.temperature_variation_altitudem * Constants.R_air)
PolytropicExponent == Quot(-gravity_zero, Mul(temperature_variation_altitudem, R_air))
\* a factor that grows with altitude
Decay_growing(altitude, T) ==
  Exp(Quot(MulDiv(gravity_zero, (altitude - altitude_junction) * 1000, R_air \div 1000), T))
\* exp(-gravity_zero / (R_air * temperature_K) * (altitude - altitude_junction))
Decay(altitude, T) ==
  Exp(-Quot(MulDiv(gravity_zero, (altitude - altitude_junction) * 1000, R_air \div 1000), T))

\* compute_pressure: the branch below the junction, at temperature T
troposphere_pressure(T) == ScaleBy(pressure_zero, Pow(TemperatureRatio(T), PolytropicExponent))
\* a decay counted from sea level instead of from the junction
stratosphere_pressure_from_zero(altitude, T) ==
  ScaleBy(troposphere_pressure(temperature_junction), Decay(altitude + altitude_junction, T))
\* compute_pressure: the branch at and above the junction
stratosphere_pressure(altitude, T) ==
  ScaleBy(troposphere_pressure(temperature_junction), Decay(altitude, T))
\* Atmosphere.compute_pressure
compute_pressure(altitude, T) ==
  IF altitude < altitude_junction THEN troposphere_pressure(T)
  ELSE stratosphere_pressure(altitude, T)

\* compute_density: the branch below the junction, at temperature T
troposphere_density(T) ==
  ScaleBy(density_zero, Pow(TemperatureRatio(T), PolytropicExponent - Scale))
\* compute_density: the branch at and above the junction
stratosphere_density(altitude, T) ==
  ScaleBy(troposphere_density(temperature_junction), Decay(altitude, T))
\* Atmosphere.compute_density
compute_density(altitude, T) ==
  IF altitude < altitude_junction THEN troposphere_density(T)
  ELSE stratosphere_density(altitude, T)

\* gravity_zero * ratio ** 2
GravityAt(ratio) == Mul(gravity_zero, Mul(ratio, ratio))
\* a gravity that holds its sea-level value where the ratio has no value
compute_gravity_guarded(altitude) ==
  IF earth_radius + altitude = 0 THEN Ret(gravity_zero)
  ELSE IF Abs(earth_radius + altitude) * 14 < earth_radius THEN Ret(Beyond)
  ELSE Ret(GravityAt(MulDiv(earth_radius, Scale, earth_radius + altitude)))
\* Atmosphere.compute_gravity (the same expression in the three modules)
compute_gravity(altitude) ==
  IF earth_radius + altitude = 0 THEN Raise("ZeroDivisionError")
  ELSE IF Abs(earth_radius + altitude) * 14 < earth_radius THEN Ret(Beyond)
  ELSE Ret(GravityAt(MulDiv(earth_radius, Scale, earth_radius + altitude)))

\* temperature_K - 273.15
Celsius(T) == IF T = Beyond THEN Beyond ELSE T - 273150000

\* src/atmosphere: compute_temperature, T0 - L * altitude
std_compute_temperature(altitude) ==
  IF altitude < -32000 THEN Beyond ELSE 288150000 - 6500 * altitude
\* p0 * base ** 5.25588; a negative base gives a complex number
PowerOf(base) ==
  IF base < 0 THEN Complex
  ELSE IF base = 0 THEN 0
  ELSE MulDiv(10132500, Pow(base, 5255880), Scale)
\* src/atmosphere: compute_pressure
std_compute_pressure(altitude) ==
  IF altitude < -32000 THEN Beyond
  ELSE PowerOf(Scale - MulDiv(225577, altitude, 10^4))
\* src/atmosphere: compute_density, pressure * M / (R * temperature_K)
std_compute_density(P, T) ==
  IF T = 0 THEN Raise("ZeroDivisionError")
  ELSE IF P = Complex THEN Ret(Complex)
  ELSE IF P = Beyond \/ T = Beyond THEN Ret(Beyond)
  ELSE Ret(MulDiv(MulDiv(P, 289644, 831447), 10^8, T))

AtmVariants == {"PyPlanePackage", "Plane_Design_Package", "atmosphere"}
Layered == {"PyPlanePackage", "Plane_Design_Package"}

\* the constructor raised: the caller gets the exception and no object
NotBuilt(variant, altitude, e) ==
  [NoAtmosphere EXCEPT !.variant = variant, !.arg = altitude, !.exc = e, !.called = TRUE]

\* Atmosphere.__init__ of the two-layer modules; g is what compute_gravity gave
LayeredObject(variant, altitude, T, g) ==
  IF g.exc # "" THEN NotBuilt(variant, altitude, g.exc)
  ELSE [variant |-> variant, arg |-> altitude, altitude |-> altitude,
        temperature_K |-> T, temperature_C |-> Celsius(T),
        pressure |-> compute_pressure(altitude, T), density |-> compute_density(altitude, T),
        sound_speed |-> compute_sound_speed(T), gravity |-> g.val,
        exc |-> "", built |-> TRUE, called |-> TRUE]

\* Atmosphere.__init__ of src/atmosphere (it has no sound_speed field)
StdObject(altitude, T, P, d, g) ==
  IF d.exc # "" THEN NotBuilt("atmosphere", altitude, d.exc)
  ELSE IF g.exc # "" THEN NotBuilt("atmosphere", altitude, g.exc)
  ELSE [variant |-> "atmosphere", arg |-> altitude, altitude |-> altitude,
        temperature_K |-> T, temperature_C |-> Celsius(T), pressure |-> P, density |-> d.val,
        sound_speed |-> 0, gravity |-> g.val, exc |-> "", built |-> TRUE, called |-> TRUE]
StdFields(altitude, T, P) ==
  StdObject(altitude, T, P, std_compute_density(P, T), compute_gravity(altitude))

\* Atmosphere(altitude) of the variant
AtmosphereObject(variant, altitude) ==
  IF variant \in Layered
  THEN LayeredObject(variant, altitude, compute_temperature(altitude), compute_gravity(altitude))
  ELSE StdFields(altitude, std_compute_temperature(altitude), std_compute_pressure(altitude))

AtmAltitudes ==
  {-earth_radius, -500, 0, 1000, 5000, 10999, 11000, 11001, 15000, 20000, 30000, 50000}

\* a = Atmosphere(altitude)
Construct(variant, altitude) ==
  /\ atm' = AtmosphereObject(variant, altitude)
  /\ UNCHANGED <<cur, kept, lookup, loaded, corr>>

\* a.altitude = altitude: a plain attribute assignment
SetAltitude(altitude) ==
  /\ atm.built
  /\ atm' = [atm EXCEPT !.altitude = altitude]
  /\ UNCHANGED <<cur, kept, lookup, loaded, corr>>

NextAtm ==
  \/ \E variant \in AtmVariants, altitude \in AtmAltitudes : Construct(variant, altitude)
  \/ \E altitude \in AtmAltitudes : SetAltitude(altitude)

SpecAtm == Init /\ [][NextAtm]_vars

(***************************************************************************)
(* The two Mach correlations called on their own, on Mach numbers on both  *)
(* sides of 1 and at 1.                                                    *)
(***************************************************************************)
Machs ==
  {-Scale, 0, 500000, 820000, 999999, Scale, 1000001, 1210000, 1500000, 2 * Scale,
   3 * Scale, 4 * Scale}
AspectRatios == {k * Scale : k \in {0, 1, 2, 4, 6, 8, 10, 12, 15, 20}}

\* finesse(mach, A)
CallFinesse(mach, A) ==
  /\ corr' = [op |-> "finesse", mach |-> mach, A |-> A, ret |-> finesse(mach, A),
              called |-> TRUE]
  /\ UNCHANGED <<cur, kept, lookup, atm, loaded>>

\* fclimb(mach)
CallFclimb(mach) ==
  /\ corr' = [op |-> "fclimb", mach |-> mach, A |-> 0, ret |-> fclimb(mach), called |-> TRUE]
  /\ UNCHANGED <<cur, kept, lookup, atm, loaded>>

NextCorr ==
  \/ \E mach \in Machs, A \in AspectRatios : CallFinesse(mach, A)
  \/ \E mach \in Machs : CallFclimb(mach)

SpecCorr == Init /\ [][NextCorr]_vars

(***************************************************************************)
(* The claims, as formulas over the states of Spec (C9, C13, C30: of       *)
(* SpecSF; C14 to C17, C24: of SpecAtm; C25: of SpecCorr; C29: of          *)
(* SpecReuse).                                                             *)
(***************************************************************************)

\* C1: every result a solve returns closes, take_off = empty + fuel + payload,
\* and echoes the payload that was passed in.
C1_WeightsClose ==
  cur.out.kind = "returned" =>
    /\ cur.out.payload = Missions[cur.m].Wpayload
    /\ Add(Add(cur.out.empty, cur.out.fuel), cur.out.payload) = cur.out.take_off

\* C2 as stated: a solve whose category is no table tag fails before the
\* root-finder is entered and before any residual evaluation takes place.
C2_FailsBeforeRootFinding ==
  (cur.m # 0 /\ lower(Missions[cur.m].Type) \notin Tags) =>
    (cur.pc # "check" /\ cur.ncalls = 0)

\* C2, amended: a solve whose category is no table tag ends in the ValueError
\* of the structure-factor lookup, raised by the first residual evaluation
\* (fsolve's check of func at x0): no second evaluation is made, hybrd takes no
\* step, and nothing is returned or printed.
C2_FailsAtFirstEvaluation ==
  (cur.m # 0 /\ lower(Missions[cur.m].Type) \notin Tags) =>
    /\ cur.pc \in {"check", "done"}
    /\ cur.pc = "done" =>
         /\ cur.out.kind = "raised" /\ cur.out.exc = "ValueError"
         /\ cur.ncalls = 1 /\ cur.nfev = 0
         /\ ~cur.out.printed /\ cur.out.value = "none"

C2_Witness ==
  /\ cur.pc = "done" /\ cur.impl = "Weight"
  /\ Missions[cur.m].Type = Str_biplane_unknown
  /\ cur.out.exc = "ValueError" /\ cur.ncalls = 1

\* C3: when the root-finder ends without converging (ier 2: evaluation budget
\* used up, ier 5: no progress), the solve ends in a SizingDidNotConverge error
\* and returns or prints no weights.
C3_NonConvergenceIsAnError ==
  (cur.pc = "done" /\ cur.ier \in {2, 5}) =>
    (cur.out.kind = "raised" /\ cur.out.exc = "SizingDidNotConverge")

\* C4: when the root-finder returns a value <= 0 the solve ends in a
\* SizingDidNotConverge error; no result with take_off <= 0 is returned.
C4_NoNonPositiveRoot ==
  /\ (cur.pc = "done" /\ cur.nfev > 0 /\ cur.x <= 0) =>
       (cur.out.kind = "raised" /\ cur.out.exc = "SizingDidNotConverge")
  /\ cur.out.kind = "returned" => cur.out.take_off > 0

\* C5: a converged result whose fuel weight is negative is returned and carries
\* an infeasible-mission warning.
C5_NegativeFuelIsFlagged ==
  (cur.pc = "done" /\ cur.ier = 1 /\ IsFinite(cur.out.fuel) /\ cur.out.fuel < 0) =>
    (cur.out.kind = "returned" /\ "InfeasibleMission" \in cur.out.warnings)

C7_ResidualReadsOwnMission ==
  cur.m # 0 => cur.mach \in {NaN, Missions[cur.m].M_cruise}

\* C8: a solve with payload 0 and a table category converges: it returns a
\* finite, strictly positive take_off and raises no error.
C8_ZeroPayloadConverges ==
  (cur.pc = "done" /\ cur.impl = "Weight" /\ Missions[cur.m].Wpayload = 0
     /\ lower(Missions[cur.m].Type) \in Tags) =>
    /\ cur.out.kind = "returned" /\ cur.ier = 1
    /\ IsFinite(cur.out.take_off) /\ cur.out.take_off > 0

\* C9: structure_factor returns a fraction exactly when the lower-cased string
\* is one of the 13 tags, and raises ValueError for every other string: no
\* string gets a default pair.
C9_CategorySetClosed ==
  lookup.called =>
    /\ (lower(lookup.Type) \in Tags) <=> (lookup.ret.exc = "")
    /\ (lower(lookup.Type) \notin Tags) <=> (lookup.ret.exc = "ValueError")
    /\ lookup.ret.exc = "" => (IsFinite(lookup.ret.val) /\ lookup.ret.val > 0)

C9_Witness ==
  /\ lookup.called /\ lookup.impl = "pm"
  /\ lookup.Type \notin Tags /\ lower(lookup.Type) \in Tags
  /\ lookup.ret.exc = "" /\ lookup.ret.val > 0

\* C10: the known-value mission converges to a take_off between 1.5e5 and
\* 2.5e5 lbf, with empty > 0 and fuel > 0.
C10_KnownValueRange ==
  (cur.pc = "done" /\ cur.impl = "Weight" /\ Missions[cur.m] = KnownMission) =>
    /\ cur.out.kind = "returned" /\ cur.ier = 1
    /\ cur.out.take_off >= 150000 /\ cur.out.take_off <= 250000
    /\ cur.out.empty > 0 /\ cur.out.fuel > 0

\* C11: every converged solve with payload > 0 and Mach >= 0 reports strictly
\* positive take_off, empty, fuel and payload, and its fuel is take_off times
\* the phase term (1 - fdec*fclimb)*(1 + fcruise*floiter), to within a few lbf.
C11_ConvergedWeightsPositive ==
  (cur.pc = "done" /\ cur.impl = "Weight" /\ cur.ier = 1 /\ cur.out.kind = "returned"
     /\ Missions[cur.m].Wpayload > 0 /\ Missions[cur.m].M_cruise >= 0) =>
    /\ IsFinite(cur.out.take_off) /\ cur.out.take_off > 0
    /\ IsFinite(cur.out.empty) /\ cur.out.empty > 0
    /\ IsFinite(cur.out.fuel) /\ cur.out.fuel > 0
    /\ cur.out.payload > 0
    /\ Abs(cur.out.fuel
            - TimesInt(PhaseTerm(fclimb(Missions[cur.m].M_cruise),
                                 fcruise(Missions[cur.m].M_cruise, Missions[cur.m].H_cruise,
                                         Missions[cur.m].A, Missions[cur.m].flight_range,
                                         Missions[cur.m].TSFC).val,
                                 floiter(Missions[cur.m].M_cruise, Missions[cur.m].T_loiter,
                                         Missions[cur.m].TSFC, Missions[cur.m].A).val),
                       cur.out.take_off)) <= 3

C11_Witness ==
  /\ cur.pc = "done" /\ cur.impl = "Weight" /\ cur.ier = 1
  /\ Missions[cur.m].M_cruise >= Scale /\ Missions[cur.m].Wpayload > 0
  /\ cur.out.kind = "returned" /\ cur.out.fuel > 0

\* C12: in every result, empty equals the exposed structure factor times
\* take_off (float equality: nan equals nothing), and the exposed structure
\* factor is the table value at take_off for the mission's category.
C12_EmptyIsFractionOfTakeOff ==
  (cur.pc = "done" /\ cur.out.kind = "returned") =>
    /\ cur.out.empty # NaN
    /\ cur.out.empty = TimesInt(cur.out.structure_factor, cur.out.take_off)
    /\ cur.out.structure_factor = Sfactor(cur.impl, Missions[cur.m].Type, cur.out.take_off).val

\* C13: every table category has a > 0 and c < 0, and for looked-up weights
\* W1 < W2 the structure factor at W1 is strictly above the one at W2.
C13_StructureFactorDecreases ==
  (lookup.called /\ lookup.ret.exc = "") =>
    /\ Sfactor_ac(lookup.impl, lower(lookup.Type))[1] > 0
    /\ Sfactor_ac(lookup.impl, lower(lookup.Type))[2] < 0
    /\ \A W2 \in LookupWeights :
         lookup.Wto < W2 => lookup.ret.val > Sfactor(lookup.impl, lookup.Type, W2).val

C13_Witness ==
  /\ lookup.called /\ lookup.impl = "pd" /\ lookup.Type = Tag_bomber
  /\ lookup.Wto = 30750 /\ lookup.ret.exc = "" /\ lookup.ret.val > 0

\* C14: the two-layer atmosphere is continuous at the junction: at H_j the
\* object's temperature, pressure and density are the values of the
\* troposphere formulas at T0 + L*H_j, which is T_j; one metre below H_j they
\* are within one metre's change of the values at H_j.
C14_ContinuousAtJunction ==
  (atm.built /\ atm.variant \in Layered) =>
    /\ atm.arg = altitude_junction =>
         /\ temperature_zero + temperature_variation_altitudem * altitude_junction
              = temperature_junction
         /\ atm.temperature_K = temperature_junction
         /\ atm.pressure = troposphere_pressure(temperature_junction)
         /\ atm.density = troposphere_density(temperature_junction)
    /\ atm.arg = altitude_junction - 1 =>
         /\ Abs(atm.temperature_K - temperature_junction) <= 6500
         /\ Abs(atm.pressure - stratosphere_pressure(altitude_junction, temperature_junction)) <= 500
         /\ Abs(atm.density - stratosphere_density(altitude_junction, temperature_junction)) <= 100

C14_Witness ==
  /\ atm.built /\ atm.variant = "PyPlanePackage" /\ atm.arg = altitude_junction
  /\ atm.altitude = altitude_junction /\ atm.pressure > 0

\* C15: for altitudes 0 <= h1 < h2 the two-layer atmosphere has
\* pressure(h1) > pressure(h2) and density(h1) > density(h2), also when h1 and
\* h2 lie on the two sides of the junction.
C15_PressureAndDensityDecrease ==
  (atm.built /\ atm.variant \in Layered /\ atm.arg >= 0) =>
    \A h2 \in AtmAltitudes :
      atm.arg < h2 =>
        /\ atm.pressure > compute_pressure(h2, compute_temperature(h2))
        /\ atm.density > compute_density(h2, compute_temperature(h2))

C15_Witness ==
  /\ atm.built /\ atm.variant = "Plane_Design_Package" /\ atm.arg = altitude_junction - 1
  /\ atm.pressure > compute_pressure(altitude_junction + 1, temperature_junction)

C17_FieldsFollowAltitude ==
  atm.built => atm = [AtmosphereObject(atm.variant, atm.altitude) EXCEPT !.arg = atm.arg]

\* C18: no solve runs, and nothing is printed, as a side effect of loading a
\* module: every solve is one a caller invoked.
C18_LoadRunsNoSolve ==
  (cur.pc # "idle") => (cur.by = "caller")

C20_EntryPointsReturnWeights ==
  (cur.pc = "done" /\ lower(Missions[cur.m].Type) \in Tags) =>
    (cur.out.kind = "returned" /\ cur.out.value = "Weight")

\* C21: the cruise altitude a mission gives in feet reaches the atmosphere model
\* as the same physical altitude: every residual evaluation that constructs an
\* Atmosphere constructs it at H_cruise feet expressed in metres (1 ft =
\* 0.3048 m), so the layer it selects is the one that contains H_cruise feet.
C21_AltitudeKeepsItsUnit ==
  (cur.m # 0 /\ cur.alt # NaN) =>
    /\ (cur.alt < altitude_junction)
         <=> ((Missions[cur.m].H_cruise * 3048) \div 10000 < altitude_junction)
    /\ cur.alt = (Missions[cur.m].H_cruise * 3048) \div 10000

\* the cruise fraction as the implementation's fpoids evaluates it for mission ms
CruiseOf(impl, ms) ==
  IF impl = "Weight"
  THEN fcruise(ms.M_cruise, ms.H_cruise, ms.A, ms.flight_range, ms.TSFC)
  ELSE IF impl = "pm"
  THEN pm_fcruise(pm_M_cruise, pm_H_cruise, ms.A, ms.flight_range, ms.TSFC)
  ELSE pd_fcruise(pd_M_cruise, pd_H_cruise, ms.A, ms.flight_range, ms.TSFC)

\* C22: in every implementation, a residual evaluation that gets to its cruise
\* fraction constructs an Atmosphere at the mission's cruise altitude and takes
\* Mach times its speed of sound: it does not end in the TypeError or NameError
\* of a speed of sound that is not there, and the three implementations give
\* the same cruise fraction for the mission.
C22_CruiseSpeedFromAtmosphere ==
  (cur.m # 0 /\ cur.mach # NaN) =>
    /\ cur.alt = Missions[cur.m].H_cruise
    /\ cur.out.exc \notin {"TypeError", "NameError"}
    /\ \A impl \in Impls : CruiseOf(impl, Missions[cur.m]) = CruiseOf("Weight", Missions[cur.m])

\* C23: loading a script variant runs its sample mission to completion and
\* prints the results: a solve that a load started ends with the four lines
\* Wto, Wempty, Wfuel and Structure factor printed, and raises nothing.
C23_LoadPrintsTheSample ==
  (cur.by = "load" /\ cur.pc = "done") =>
    (cur.out.kind = "returned" /\ cur.out.exc = "" /\ cur.out.printed)

\* C24: every Atmosphere object of the repository is two-layer with the
\* breakpoint exactly at 11000 m: constructed at an altitude below 11000 m its
\* temperature is 288.16 K - 6.5e-3 K/m * altitude, and constructed at 11000 m
\* or above it is 216.66 K.
C24_TwoLayersInEveryAtmosphere ==
  (atm.built /\ atm.arg >= -32000) =>
    atm.temperature_K = IF atm.arg < 11000 THEN 288160000 - 6500 * atm.arg ELSE 216660000

\* C25: the breakpoint of both correlations is exactly Mach 1.  finesse gives
\* A + 10 for every Mach < 1 and 11 * Mach^-0.5 (its square times Mach is 121)
\* for every Mach >= 1, 11 at Mach 1; fclimb gives 1 - 0.04*Mach for every
\* Mach < 1 and 0.96 - 0.03*(Mach - 1) for every Mach >= 1, 0.96 at Mach 1,
\* which is also what the subsonic formula gives at 1.
C25_MachOneBreakpointExact ==
  corr.called =>
    /\ corr.op = "finesse" =>
         /\ corr.mach < Scale => corr.ret = corr.A + 10 * Scale
         /\ corr.mach >= Scale => Abs(Mul(Mul(corr.ret, corr.ret), corr.mach) - 121 * Scale) <= 2000
         /\ corr.mach = Scale => corr.ret = 11 * Scale
    /\ corr.op = "fclimb" =>
         /\ corr.mach < Scale => corr.ret = Scale - (4 * corr.mach) \div 100
         /\ corr.mach >= Scale =>
              corr.ret = 960000 - (3 * (corr.mach - Scale)) \div 100
         /\ corr.mach = Scale =>
              (corr.ret = 960000 /\ corr.ret = Scale - (4 * Scale) \div 100)

C25_Witness ==
  /\ corr.called /\ corr.op = "finesse" /\ corr.mach = Scale /\ corr.A = 10 * Scale
  /\ corr.ret = 11 * Scale

\* C26: within one solve the phase term (1 - fdec*fclimb)*(1 + fcruise*floiter),
\* fdec = 0.975, does not depend on Wto: every residual evaluation of the solve
\* has the phase term of the first one, at whatever Wto it is made, and that
\* value is the one the mission's Mach, altitude, aspect ratio, range, TSFC and
\* loiter time give.
C26_PhaseTermIndependentOfWto ==
  /\ fdec = 975000
  /\ (cur.m # 0 /\ cur.ncalls >= 1) => cur.phase = cur.phase0
  /\ (cur.m # 0 /\ cur.impl = "Weight" /\ cur.phase # NaN) =>
       cur.phase = PhaseTerm(fclimb(Missions[cur.m].M_cruise),
                             CruiseOf("Weight", Missions[cur.m]).val,
                             floiter(Missions[cur.m].M_cruise, Missions[cur.m].T_loiter,
                                     Missions[cur.m].TSFC, Missions[cur.m].A).val)

C26_Witness ==
  /\ cur.impl = "Weight" /\ cur.ncalls >= 5 /\ cur.x # cur.x0
  /\ cur.phase # NaN /\ cur.phase = cur.phase0

\* C27: a solve runs the root-finder once, from an initial guess equal to the
\* payload weight: at every point of a solve one run has been started, its
\* starting guess was the mission's Wpayload, and a run that failed or did not
\* converge is followed by no second run (the solve has ended and only waits
\* for its caller).
C27_OneRunFromThePayload ==
  cur.m # 0 =>
    /\ cur.nruns = 1
    /\ cur.x0 = Missions[cur.m].Wpayload
    /\ cur.ncalls <= MaxFev + 1
    /\ (cur.out.kind = "raised" \/ cur.ier \in {2, 5}) => cur.pc \in {"post", "done"}

C27_Witness ==
  /\ cur.pc = "done" /\ cur.impl = "Weight" /\ cur.ier \in {2, 5}
  /\ cur.nruns = 1 /\ cur.x0 = Missions[cur.m].Wpayload /\ cur.nfev > 2

\* C28: the result of a solve does not depend on Fuel_res or Fuel_trap: a
\* solve whose mission differs from the mission of the outcome the caller kept
\* only in these two inputs, by the same implementation, gives the same
\* take_off, empty and fuel (or the same error).
C28_FuelFractionsDoNotEnter ==
  (cur.pc = "done" /\ kept.m # 0 /\ kept.m # cur.m /\ kept.impl = cur.impl
     /\ [Missions[kept.m] EXCEPT !.Fuel_res = 0, !.Fuel_trap = 0]
          = [Missions[cur.m] EXCEPT !.Fuel_res = 0, !.Fuel_trap = 0]) =>
    /\ kept.out.kind = cur.out.kind /\ kept.out.exc = cur.out.exc
    /\ kept.out.take_off = cur.out.take_off
    /\ kept.out.empty = cur.out.empty
    /\ kept.out.fuel = cur.out.fuel

C28_Witness ==
  /\ cur.pc = "done" /\ cur.impl = "Weight" /\ kept.impl = "Weight"
  /\ Missions[kept.m] = KnownMission
  /\ Missions[cur.m] = [KnownMission EXCEPT !.Fuel_res = 100000, !.Fuel_trap = 0]
  /\ cur.out.kind = "returned" /\ cur.out.take_off = kept.out.take_off /\ cur.out.take_off > 0

\* C29: a constructed Weight object still works as a solver: called on the
\* object the caller kept, structure_factor returns what the class's function
\* returns for that category and weight, and iterate_take_off_weight on the
\* mission the object was built from ends without an error in the take_off the
\* object holds.
C29_BuiltObjectStillSolves ==
  /\ (lookup.called /\ lookup.bound) => lookup.ret = structure_factor(lookup.Type, lookup.Wto)
  /\ (cur.pc = "done" /\ cur.by = "instance" /\ lower(Missions[cur.m].Type) \in Tags) =>
       cur.out.exc # "TypeError"
  /\ (cur.pc = "done" /\ cur.by = "instance" /\ kept.m = cur.m) =>
       (cur.out.kind = "returned" /\ cur.out.take_off = kept.out.take_off)

\* C30: the three copies of the structure-fraction table agree: for every
\* string and every positive takeoff weight, structure_factor of Weight, of
\* PyPlanePackage/plane/plane_mass.py and of Plane_Design_Package/Plane/
\* plane_mass.py select the same (a, c) pair (transport-jet: 1.02, -0.06;
\* combat-jet: 2.34, -0.13), return the same fraction, and raise for the same
\* strings.
C30_TableCopiesAgree ==
  /\ \A impl \in Impls :
       /\ Sfactor_ac(impl, Tag_transport_jet) = <<1020000, -6>>
       /\ Sfactor_ac(impl, Tag_combat_jet) = <<2340000, -13>>
  /\ lookup.called =>
       \A impl \in Impls :
         /\ Sfactor_ac(impl, lower(lookup.Type)) = Sfactor_ac(lookup.impl, lower(lookup.Type))
         /\ Sfactor(impl, lookup.Type, lookup.Wto) = lookup.ret

C30_Witness ==
  /\ lookup.called /\ lookup.impl = "pd" /\ lookup.Type = upper(Tag_combat_jet)
  /\ lookup.ret.exc = "" /\ lookup.ret = structure_factor(lookup.Type, lookup.Wto)
  /\ lookup.ret.val > 0

====
